---- MODULE Spec2Model ----
(***************************************************************************)
(* Outline extraction of src/app.py: the title extractor, the font         *)
(* statistics analyzer, the heading extractor and the per-document         *)
(* orchestrator, over the page -> block -> line -> span tree the layout    *)
(* parser hands over.                                                      *)
(*                                                                         *)
(* Texts are sequences of one-character strings, so that the regular       *)
(* expressions, str.split, str.lower, str.isupper and str.istitle are      *)
(* computed character by character as the code's library calls do.         *)
(* Font sizes are integers in 1/100 pt; thresholds are integers in         *)
(* 1/10000 pt, so that body*1.15, body*1.25, body*1.35 and body*1.05 are   *)
(* exact.  A mean size is the pair (sum of sizes, number of sizes) and is  *)
(* compared by cross-multiplication.  (The products and means are the      *)
(* real-number values; the code's binary floating point is within one      *)
(* unit in the last place of them.)                                        *)
(***************************************************************************)
EXTENDS Integers, Sequences, FiniteSets, TLC

VARIABLES
    doc,            \* the opened document: a sequence of pages
    pc,             \* position in extract_outline_from_pdf
    title,          \* extract_title_from_document's result
    thresholds,     \* analyze_font_sizes' result
    headings,       \* extract_headings_from_document: headings
    seen_headings,  \* extract_headings_from_document: seen_headings
    page_num,       \* extract_headings_from_document: enumerate(doc, 1)
    todo,           \* lines of the current page not yet visited
    result,         \* the dict extract_outline_from_pdf returns
    origin,         \* history: for each heading, the (page, line) it came from
    stages,         \* history: the stages that ran to completion, in order
    last            \* history: what the loop body did with the last line

vars == <<doc, pc, title, thresholds, headings, seen_headings, page_num,
          todo, result, origin, stages, last>>

-----------------------------------------------------------------------------
(* Characters and the str / re library calls the code uses.                *)

Digits == {"0", "1", "2", "3", "4", "5", "6", "7", "8", "9"}

\* \s of re, and the characters str.strip and str.split treat as blank
Whitespace == {" ", "\t", "\n"}

UpperCase == <<"A", "B", "C", "D", "E", "F", "G", "H", "I", "J", "K", "L", "M",
               "N", "O", "P", "Q", "R", "S", "T", "U", "V", "W", "X", "Y", "Z">>

LowerCase == <<"a", "b", "c", "d", "e", "f", "g", "h", "i", "j", "k", "l", "m",
               "n", "o", "p", "q", "r", "s", "t", "u", "v", "w", "x", "y", "z">>

UpperSet == {UpperCase[i] : i \in 1..26}

LowerSet == {LowerCase[i] : i \in 1..26}

\* the lower-case letter of each upper-case letter
LowerOf == [c \in UpperSet |-> LowerCase[CHOOSE i \in 1..26 : UpperCase[i] = c]]

IsUpperChar(c) == c \in UpperSet

IsLowerChar(c) == c \in LowerSet

IsCased(c) == IsUpperChar(c) \/ IsLowerChar(c)

LowerChar(c) == IF IsUpperChar(c) THEN LowerOf[c] ELSE c

\* str.lower()
Lower(t) == [i \in 1..Len(t) |-> LowerChar(t[i])]

\* str.strip(): leading and trailing blanks removed
RECURSIVE LStrip(_)
LStrip(t) ==
    IF t # <<>> /\ Head(t) \in Whitespace THEN LStrip(Tail(t)) ELSE t

RECURSIVE RStrip(_)
RStrip(t) ==
    IF t # <<>> /\ t[Len(t)] \in Whitespace
    THEN RStrip(SubSeq(t, 1, Len(t) - 1))
    ELSE t

Strip(t) == RStrip(LStrip(t))

\* a blank that follows a blank
RepeatedBlank(m) == m.blank /\ m.afterBlank

\* re.sub(r'\s+', ' ', t): every maximal run of blanks becomes one space
CollapseBlanks(t) ==
    LET marked == [i \in 1..Len(t) |->
                    [char |-> t[i],
                     blank |-> t[i] \in Whitespace,
                     afterBlank |-> i > 1 /\ t[i - 1] \in Whitespace]]
        kept == SelectSeq(marked, LAMBDA m : ~RepeatedBlank(m))
    IN [i \in 1..Len(kept) |-> IF kept[i].blank THEN " " ELSE kept[i].char]

\* len(t.split()): the number of maximal runs of non-blank characters
WordCount(t) ==
    Cardinality({i \in 1..Len(t) :
        /\ t[i] \notin Whitespace
        /\ (i = 1 \/ t[i - 1] \in Whitespace)})

\* str.startswith(p)
StartsWith(t, p) == Len(t) >= Len(p) /\ SubSeq(t, 1, Len(p)) = p

\* str.endswith(p)
EndsWith(t, p) ==
    Len(t) >= Len(p) /\ SubSeq(t, Len(t) - Len(p) + 1, Len(t)) = p

\* p occurs in t at or after position from
ContainsFrom(t, p, from) ==
    \E i \in from..(Len(t) - Len(p) + 1) : SubSeq(t, i, i + Len(p) - 1) = p

\* the position just after the run \d+ that starts at i, or 0 when t[i] is
\* no digit (the pattern's next character is never a digit, so the run the
\* regex settles on is the maximal one)
RECURSIVE DigitsEnd(_, _)
DigitsEnd(t, i) ==
    IF i > Len(t) \/ t[i] \notin Digits THEN 0
    ELSE IF i + 1 <= Len(t) /\ t[i + 1] \in Digits THEN DigitsEnd(t, i + 1)
    ELSE i + 1

CharAt(t, i, set) == i >= 1 /\ i <= Len(t) /\ t[i] \in set

\* re.match(r'^\d+\.\s', t)
MatchNum1(t) ==
    LET a == DigitsEnd(t, 1)
    IN a # 0 /\ CharAt(t, a, {"."}) /\ CharAt(t, a + 1, Whitespace)

\* re.match(r'^\d+\.\d+\s', t)
MatchNum2(t) ==
    LET a == DigitsEnd(t, 1)
        b == IF a # 0 /\ CharAt(t, a, {"."}) THEN DigitsEnd(t, a + 1) ELSE 0
    IN b # 0 /\ CharAt(t, b, Whitespace)

\* re.match(r'^\d+\.\d+\.\d+\s', t)
MatchNum3(t) ==
    LET a == DigitsEnd(t, 1)
        b == IF a # 0 /\ CharAt(t, a, {"."}) THEN DigitsEnd(t, a + 1) ELSE 0
        c == IF b # 0 /\ CharAt(t, b, {"."}) THEN DigitsEnd(t, b + 1) ELSE 0
    IN c # 0 /\ CharAt(t, c, Whitespace)

\* re.match(r'^\d{1,2}\.', t)
MatchFormPrefix(t) ==
    /\ CharAt(t, 1, Digits)
    /\ \/ CharAt(t, 2, {"."})
       \/ CharAt(t, 2, Digits) /\ CharAt(t, 3, {"."})

\* re.match(r'^[\d\s\.\-/]+$', t)
MatchOnlyNumeric(t) ==
    /\ t # <<>>
    /\ \A i \in 1..Len(t) : t[i] \in Digits \cup Whitespace \cup {".", "-", "/"}

\* re.match(r'^\d{1,3}$', t)
MatchShortNumber(t) ==
    Len(t) \in 1..3 /\ \A i \in 1..Len(t) : t[i] \in Digits

\* re.match(r'^\d{4}$', t)
MatchYear(t) == Len(t) = 4 /\ \A i \in 1..4 : t[i] \in Digits

\* re.match(r'^page \d+', t)
MatchPageNo(t) ==
    StartsWith(t, <<"p", "a", "g", "e", " ">>) /\ CharAt(t, 6, Digits)

\* re.match(r'^©.*copyright.*$', t)
MatchCopyright(t) ==
    /\ StartsWith(t, <<"©">>)
    /\ ContainsFrom(t, <<"c", "o", "p", "y", "r", "i", "g", "h", "t">>, 2)

\* re.match(r'^version.*\d+.*$', t)
MatchVersion(t) ==
    /\ StartsWith(t, <<"v", "e", "r", "s", "i", "o", "n">>)
    /\ \E i \in 8..Len(t) : t[i] \in Digits

\* str.isupper(): a cased character, and no lower-case one
IsUpper(t) ==
    /\ \E i \in 1..Len(t) : IsCased(t[i])
    /\ \A i \in 1..Len(t) : ~IsLowerChar(t[i])

\* str.istitle(): a cased character; upper case only after an uncased
\* character, lower case only after a cased one
IsTitle(t) ==
    /\ \E i \in 1..Len(t) : IsCased(t[i])
    /\ \A i \in 1..Len(t) :
        LET prevCased == i > 1 /\ IsCased(t[i - 1])
        IN /\ IsUpperChar(t[i]) => ~prevCased
           /\ IsLowerChar(t[i]) => prevCased

\* clean_text
clean_text(text) == CollapseBlanks(Strip(text))

-----------------------------------------------------------------------------
(* The layout tree.  A span is [text, size, font, flags, x0]: size in      *)
(* 1/100 pt, x0 = bbox[0] in 1/10 pt.  A line is the sequence of its       *)
(* spans, a block is [image, lines] (an image block has no "lines" key),   *)
(* a page is the sequence of its blocks, a document that of its pages.     *)

None == "None"

RECURSIVE Flatten(_)
Flatten(ss) == IF ss = <<>> THEN <<>> ELSE Head(ss) \o Flatten(Tail(ss))

RECURSIVE SumSeq(_)
SumSeq(s) == IF s = <<>> THEN 0 ELSE Head(s) + SumSeq(Tail(s))

\* the lines the loops "for block in blocks: if 'lines' not in block: continue;
\* for line in block['lines']" visit on one page, in order
PageLines(page) ==
    Flatten([b \in 1..Len(page) |->
        IF page[b].image THEN <<>> ELSE page[b].lines])

\* span["text"].strip() is truthy
NonBlank(span) == Strip(span.text) # <<>>

\* the spans of a line that the loops keep
TextSpans(line) == SelectSeq(line, NonBlank)

\* line_text after clean_text
LineText(line) ==
    LET kept == TextSpans(line)
    IN clean_text(Flatten([i \in 1..Len(kept) |-> kept[i].text]))

\* font_sizes of a line
LineSizes(line) ==
    LET kept == TextSpans(line)
    IN [i \in 1..Len(kept) |-> kept[i].size]

\* round(x, 1) of a size in 1/100 pt: to the nearest 1/10 pt, a tie to the
\* even tenth (the sizes drawn here that end in 5 are binary fractions)
Round1(h) ==
    LET q == h \div 10
        r == h % 10
    IN IF r < 5 THEN 10 * q
       ELSE IF r > 5 THEN 10 * (q + 1)
       ELSE IF q % 2 = 0 THEN 10 * q ELSE 10 * (q + 1)

\* round(x) of a coordinate in 1/10 pt: to the nearest integer, a tie to even
Round0(x) ==
    LET q == x \div 10
        r == x % 10
    IN IF r < 5 THEN q
       ELSE IF r > 5 THEN q + 1
       ELSE IF q % 2 = 0 THEN q ELSE q + 1

\* mean >= t for the mean sum/n (1/100 pt) and a threshold t (1/10000 pt)
MeanGE(sum, n, t) == sum * 100 >= t * n

is_bold(span) ==
    \/ ContainsFrom(Lower(span.font), <<"b", "o", "l", "d">>, 1)
    \/ (span.flags \div 2) % 2 = 1

detect_heading_level_by_number(text) ==
    IF MatchNum1(text) /\ WordCount(text) <= 6 THEN "H1"
    ELSE IF MatchNum2(text) /\ WordCount(text) <= 8 THEN "H2"
    ELSE IF MatchNum3(text) /\ WordCount(text) <= 10 THEN "H3"
    ELSE None

\* font_size is the mean sum/n; avg is thresholds' body (1/10000 pt)
is_likely_heading(rawtext, sum, n, avg) ==
    LET text == clean_text(rawtext)
        low == Lower(text)
    IN IF Len(text) < 2 \/ Len(text) > 200 THEN FALSE
       ELSE IF MatchOnlyNumeric(text) THEN FALSE
       ELSE IF \/ MatchShortNumber(low)
               \/ MatchPageNo(low)
               \/ MatchYear(low)
               \/ MatchCopyright(low)
               \/ MatchVersion(low)
            THEN FALSE
       ELSE \/ sum * 10000 >= avg * 105 * n
            \/ IsUpper(text)
            \/ IsTitle(text)
            \/ EndsWith(text, <<":">>)
            \/ WordCount(text) <= 10

\* the spans every page's blocks' lines hold, in order (line.get("spans", []))
DocSpans(d) ==
    Flatten([p \in 1..Len(d) |-> Flatten(PageLines(d[p]))])

\* font_sizes of analyze_font_sizes
FontSizes(d) ==
    LET kept == SelectSeq(DocSpans(d), NonBlank)
    IN [i \in 1..Len(kept) |-> Round1(kept[i].size)]

\* Counter(font_sizes)[v]
CountOf(fs, v) == Cardinality({i \in 1..Len(fs) : fs[i] = v})

\* sorted(set, reverse=True)
RECURSIVE SortedDesc(_)
SortedDesc(S) ==
    IF S = {} THEN <<>>
    ELSE LET m == CHOOSE x \in S : \A y \in S : y <= x
         IN <<m>> \o SortedDesc(S \ {m})

\* the body font with a tie going to the smaller size
BodyFont_SmallerTie(fs) ==
    LET S == {fs[i] : i \in 1..Len(fs)}
    IN CHOOSE v \in S : \A w \in S :
         \/ CountOf(fs, v) > CountOf(fs, w)
         \/ CountOf(fs, v) = CountOf(fs, w) /\ v <= w

\* sorted(font_counter.items(), key=lambda x: (-x[1], -x[0]))[0][0]
BodyFont(fs) ==
    LET S == {fs[i] : i \in 1..Len(fs)}
    IN CHOOSE v \in S : \A w \in S :
         \/ CountOf(fs, v) > CountOf(fs, w)
         \/ CountOf(fs, v) = CountOf(fs, w) /\ v >= w

NoThresholds == [k \in {} |-> 0]

Min(a, b) == IF a <= b THEN a ELSE b

\* analyze_font_sizes with the fallback thresholds all at the body size
analyze_font_sizes_NoRatio(d) ==
    LET fs == FontSizes(d)
        body_font == BodyFont(fs)
        unique_sizes == SortedDesc({fs[i] : i \in 1..Len(fs)})
        n == Len(unique_sizes)
    IN IF fs = <<>> THEN [k \in {} |-> 0]
       ELSE IF n >= 4
            THEN [body |-> body_font * 100,
                  H3 |-> unique_sizes[3] * 100,
                  H2 |-> unique_sizes[2] * 100,
                  H1 |-> unique_sizes[1] * 100]
            ELSE [body |-> body_font * 100,
                  H3 |-> body_font * 100,
                  H2 |-> body_font * 100,
                  H1 |-> body_font * 100]

\* thresholds in 1/10000 pt
analyze_font_sizes(d) ==
    LET fs == FontSizes(d)
        body_font == BodyFont(fs)
        unique_sizes == SortedDesc({fs[i] : i \in 1..Len(fs)})
        n == Len(unique_sizes)
    IN IF fs = <<>> THEN NoThresholds
       ELSE IF n >= 4
            THEN [body |-> body_font * 100,
                  H3 |-> unique_sizes[Min(2, n - 1) + 1] * 100,
                  H2 |-> unique_sizes[Min(1, n - 1) + 1] * 100,
                  H1 |-> unique_sizes[1] * 100]
            ELSE [body |-> body_font * 100,
                  H3 |-> body_font * 115,
                  H2 |-> body_font * 125,
                  H1 |-> body_font * 135]

\* dict.get(k, default), the default in pt
Get(t, k, default) == IF k \in DOMAIN t THEN t[k] ELSE default * 10000

classify_heading_level(text, sum, n, t) ==
    LET level_by_number == detect_heading_level_by_number(text)
    IN IF level_by_number # None THEN level_by_number
       ELSE IF MeanGE(sum, n, Get(t, "H1", 16)) THEN "H1"
       ELSE IF MeanGE(sum, n, Get(t, "H2", 14)) THEN "H2"
       ELSE IF MeanGE(sum, n, Get(t, "H3", 12)) THEN "H3"
       ELSE None

Untitled == <<"U", "n", "t", "i", "t", "l", "e", "d">>

\* the title_candidates one line appends (none or one)
LineCandidates(line, pg) ==
    LET text == LineText(line)
        sizes == LineSizes(line)
        sum == SumSeq(sizes)
        n == Len(sizes)
    IN IF line = <<>> \/ text = <<>> \/ sizes = <<>> THEN <<>>
       ELSE IF /\ 10 < Len(text)
               /\ Len(text) < 150
               /\ sum > 1000 * n
               /\ ~StartsWith(Lower(text), <<"p", "a", "g", "e">>)
            THEN <<[text |-> text, sum |-> sum, n |-> n, page |-> pg,
                    length |-> Len(text)]>>
            ELSE <<>>

\* title_candidates with the loop over every page
TitleCandidates_AllPages(d) ==
    Flatten([p \in 1..Len(d) |->
        LET ls == PageLines(d[p])
        IN Flatten([i \in 1..Len(ls) |-> LineCandidates(ls[i], p)])])

\* title_candidates after the loops over range(min(3, len(doc)))
TitleCandidates(d) ==
    Flatten([p \in 1..Min(3, Len(d)) |->
        LET ls == PageLines(d[p])
        IN Flatten([i \in 1..Len(ls) |-> LineCandidates(ls[i], p)])])

\* key(a) < key(b) for key = (-size, page), size the mean sum/n
KeyLess(a, b) ==
    \/ a.sum * b.n > b.sum * a.n
    \/ a.sum * b.n = b.sum * a.n /\ a.page < b.page

\* list.sort(key=...): stable; c goes in before the first element of the
\* sorted list whose key is greater
RECURSIVE InsertByKey(_, _)
InsertByKey(sorted, c) ==
    IF sorted = <<>> THEN <<c>>
    ELSE IF KeyLess(c, Head(sorted)) THEN <<c>> \o sorted
    ELSE <<Head(sorted)>> \o InsertByKey(Tail(sorted), c)

RECURSIVE SortCandidates(_)
SortCandidates(cs) ==
    IF cs = <<>> THEN <<>>
    ELSE InsertByKey(SortCandidates(SubSeq(cs, 1, Len(cs) - 1)), cs[Len(cs)])

extract_title_from_document(d) ==
    LET title_candidates == TitleCandidates(d)
    IN IF title_candidates = <<>> THEN Untitled
       ELSE SortCandidates(title_candidates)[1].text

\* is_table_like(line_text, line); a line dict is never empty, so the
\* "if not line" return is not taken
is_table_like(line) ==
    LET kept == TextSpans(line)
        x_positions == [i \in 1..Len(kept) |-> Round0(kept[i].x0)]
        repeated_cols == {x_positions[i] : i \in
            {j \in 1..Len(kept) : CountOf(x_positions, x_positions[j]) >= 2}}
    IN IF Len(x_positions) < 2 THEN FALSE
       ELSE Cardinality(repeated_cols) >= 2 \/ Len(line) >= 4

\* any(is_bold(span)) over the spans the loop keeps
is_bold_line(line) ==
    \E i \in 1..Len(TextSpans(line)) : is_bold(TextSpans(line)[i])

\* the form-field filter counting 5 words after the prefix
form_field_filter_After(line_text) ==
    MatchFormPrefix(Strip(line_text)) /\ WordCount(line_text) >= 6

\* re.match(r'^\d{1,2}\.', line_text.strip()) and len(line_text.split()) >= 5
form_field_filter(line_text) ==
    MatchFormPrefix(Strip(line_text)) /\ WordCount(line_text) >= 5

\* the title comparison without lower()
is_title_text_Exact(ttl, line_text) == clean_text(ttl) = line_text

\* clean_text(title).lower() == line_text.lower()
is_title_text(ttl, line_text) == Lower(clean_text(ttl)) = Lower(line_text)

\* heading_key without lower(): the key keeps the text's case
heading_key_Cased(line_text) == Strip(line_text)

\* heading_key = line_text.lower().strip()
heading_key(line_text) == Strip(Lower(line_text))

\* what one pass of the loop body of extract_headings_from_document does
\* with a line: the continue it takes, or the level it classifies
LineOutcome(line, ttl, thr, seen) ==
    LET line_text == LineText(line)
        font_sizes == LineSizes(line)
        sum == SumSeq(font_sizes)
        n == Len(font_sizes)
        level == classify_heading_level(line_text, sum, n, thr)
    IN IF line = <<>> THEN "nospans"
       ELSE IF line_text = <<>> \/ font_sizes = <<>> THEN "notext"
       ELSE IF is_table_like(line) THEN "table"
       ELSE IF form_field_filter(line_text) THEN "form"
       ELSE IF ~(\/ is_likely_heading(line_text, sum, n, Get(thr, "body", 12))
                 \/ is_bold_line(line))
            THEN "notcand"
       ELSE IF is_title_text(ttl, line_text) THEN "title"
       ELSE IF heading_key(line_text) \in seen THEN "dup"
       ELSE IF level # None THEN level
       ELSE "nolevel"

Levels == {"H1", "H2", "H3"}

\* the record with the 1-indexed page number
HeadingRecord_OneBased(level, line_text, pg) ==
    [level |-> level, text |-> Append(line_text, " "), page |-> pg]

\* the record headings.append builds
HeadingRecord(level, line_text, pg) ==
    [level |-> level, text |-> Append(line_text, " "), page |-> pg - 1]

ErrorTitle == <<"E", "r", "r", "o", "r">>

EmptyDocumentTitle ==
    <<"E", "m", "p", "t", "y", " ", "D", "o", "c", "u", "m", "e", "n", "t">>

\* the except branch returning the headings collected so far
ErrorResult_Partial(partial) == [title |-> ErrorTitle, outline |-> partial]

\* the except branch's return value
ErrorResult(partial) == [title |-> ErrorTitle, outline |-> <<>>]

\* the return value for len(doc) == 0
EmptyResult == [title |-> EmptyDocumentTitle, outline |-> <<>>]

\* the return value of the try body
OutlineResult(ttl, outline) == [title |-> ttl, outline |-> outline]

NoResult == [title |-> <<>>, outline |-> <<>>]

NoLine == [page |-> 0, idx |-> 0, outcome |-> "none"]

-----------------------------------------------------------------------------
(* The documents the layout parser may hand over: lines drawn from a       *)
(* library of spans' texts, sizes, fonts, flags and positions, laid out    *)
(* on pages that each start with an image block.                           *)

TxtIntro ==
    <<"1", ".", " ", "I", "n", "t", "r", "o", "d", "u", "c", "t", "i", "o",
      "n">>

TxtIntroVar ==
    <<" ", " ", "1", ".", " ", "\t", " ", "I", "N", "T", "R", "O", "D",
      "U", "C", "T", "I", "O", "N", " ">>

TxtSco ==
    <<"S", "c", "o">>

TxtPe ==
    <<"p", "e">>

TxtScopeUp ==
    <<"S", "C", "O", "P", "E">>

TxtNumScope ==
    <<"1", ".", " ", "S", "c", "o", "p", "e">>

TxtNumScopeUp ==
    <<"1", ".", " ", "S", "C", "O", "P", "E">>

TxtNumScope5 ==
    <<"1", ".", " ", "S", "c", "o", "p", "e", " ", "o", "f", " ", "t", "h",
      "e", " ", "w", "o", "r", "k">>

TxtNum3Scope5 ==
    <<"1", ".", "2", ".", "3", " ", "S", "c", "o", "p", "e", " ", "o", "f",
      " ", "t", "h", "e", " ", "w", "o", "r", "k">>

TxtNum3Long ==
    <<"1", "2", "3", ".", "2", ".", "3", " ", "S", "c", "o", "p", "e", " ",
      "o", "f", " ", "t", "h", "e", " ", "w", "o", "r", "k">>

TxtLongPrefix ==
    <<"1", "2", "3", ".", " ", "S", "c", "o", "p", "e", " ", "o", "f", " ",
      "t", "h", "e", " ", "w", "o", "r", "k">>

TxtBody1 ==
    <<"t", "h", "e", " ", "f", "o", "x", " ", "r", "a", "n", " ", "o", "v",
      "e", "r", " ", "a", " ", "d", "o", "g", " ">>

TxtBody2 ==
    <<"a", "n", "d", " ", "a", " ", "c", "a", "t", " ", "a", "n", "d", " ",
      "a", " ", "h", "e", "n", "\n">>

TxtAnnex ==
    <<"A", "n", "n", "e", "x">>

TxtAnnexA ==
    <<" ", "A">>

TxtUntitled ==
    <<"U", "N", "T", "I", "T", "L", "E", "D">>

TxtSummary ==
    <<"S", "u", "m", "m", "a", "r", "y">>

TxtName ==
    <<"N", "a", "m", "e">>

TxtDate ==
    <<"D", "a", "t", "e">>

TxtSum ==
    <<"S", "u", "m">>

TxtRef ==
    <<"R", "e", "f">>

TxtBlank ==
    <<" ">>

Helvetica ==
    <<"H", "e", "l", "v", "e", "t", "i", "c", "a">>

HelveticaBold ==
    <<"H", "e", "l", "v", "e", "t", "i", "c", "a", "-", "B", "o", "l", "d">>

Sp(text, size, font, flags, x0) ==
    [text |-> text, size |-> size, font |-> font, flags |-> flags, x0 |-> x0]

LnIntro == <<Sp(TxtIntro, 2400, Helvetica, 0, 720)>>

LnIntroVar == <<Sp(TxtIntroVar, 1800, HelveticaBold, 16, 720)>>

LnScopeUp == <<Sp(TxtScopeUp, 1800, Helvetica, 0, 720)>>

LnScopePlain ==
    <<Sp(TxtSco, 1200, Helvetica, 0, 720), Sp(TxtPe, 1200, Helvetica, 0, 905)>>

LnNumScope == <<Sp(TxtNumScope, 1200, Helvetica, 0, 720)>>

LnNumScopeUp == <<Sp(TxtNumScopeUp, 1400, HelveticaBold, 16, 720)>>

LnNumScope5 == <<Sp(TxtNumScope5, 1400, Helvetica, 2, 720)>>

LnNum3Scope5 == <<Sp(TxtNum3Scope5, 1400, HelveticaBold, 16, 720)>>

LnNum3Long == <<Sp(TxtNum3Long, 1200, Helvetica, 0, 720)>>

LnLongPrefix == <<Sp(TxtLongPrefix, 1200, Helvetica, 0, 720)>>

LnTable ==
    <<Sp(TxtName, 1800, HelveticaBold, 16, 720),
      Sp(TxtDate, 1400, Helvetica, 0, 2004),
      Sp(TxtSum, 1200, Helvetica, 0, 3006),
      Sp(TxtRef, 900, Helvetica, 0, 4000)>>

LnSparse ==
    <<Sp(TxtSummary, 1800, HelveticaBold, 16, 720),
      Sp(TxtBlank, 1200, Helvetica, 0, 2004),
      Sp(TxtBlank, 1200, Helvetica, 0, 3006),
      Sp(TxtBlank, 1200, Helvetica, 0, 4000)>>

LnBody ==
    <<Sp(TxtBody1, 1200, Helvetica, 0, 720),
      Sp(TxtBody2, 1200, Helvetica, 0, 2215)>>

LnAnnex ==
    <<Sp(TxtAnnex, 2400, Helvetica, 0, 720),
      Sp(TxtAnnexA, 1200, Helvetica, 0, 1500)>>

LnUntitled == <<Sp(TxtUntitled, 1800, HelveticaBold, 16, 720)>>

LnBlank == <<Sp(TxtBlank, 2400, HelveticaBold, 16, 720)>>

LnEmpty == <<>>

\* lines for the title exclusion, the de-duplication and the outline's order
LineLib ==
    {LnIntro, LnIntroVar, LnScopeUp, LnScopePlain, LnNumScope, LnNumScopeUp,
     LnAnnex, LnUntitled, LnBody, LnTable, LnBlank}

\* lines for the table-row filter, the form-field filter and the levels
FilterLib ==
    {LnNumScope, LnNumScope5, LnNum3Scope5, LnNum3Long, LnLongPrefix,
     LnTable, LnSparse, LnBody, LnScopePlain, LnEmpty}

\* the most lines and pages a document holds
MaxLines == 2

MaxPages == 2

ImageBlock == [image |-> TRUE, lines |-> <<>>]

TextBlock(ls) == [image |-> FALSE, lines |-> ls]

\* a page of the lines ls: an image block, the first line in a block of its
\* own, the other lines together in a second block
MakePage(ls) ==
    <<ImageBlock>> \o
    (IF ls = <<>> THEN <<>>
     ELSE IF Len(ls) = 1 THEN <<TextBlock(ls)>>
     ELSE <<TextBlock(<<ls[1]>>), TextBlock(Tail(ls))>>)

\* the lines of ls that at puts on page p
RECURSIVE LinesOn(_, _, _)
LinesOn(ls, at, p) ==
    IF ls = <<>> THEN <<>>
    ELSE (IF Head(at) = p THEN <<Head(ls)>> ELSE <<>>)
         \o LinesOn(Tail(ls), Tail(at), p)

MakeDoc(ls, at, np) == [p \in 1..np |-> MakePage(LinesOn(ls, at, p))]

\* the ways to put n lines, in order, on np pages
Layouts(n, np) ==
    {f \in [1..n -> 1..np] : \A i \in 1..n, j \in 1..n : i <= j => f[i] <= f[j]}

\* doc is some document of at most MaxPages pages and MaxLines lines of lib
SomeDoc(lib) ==
    \E np \in 0..MaxPages, n \in 0..MaxLines :
        \E ls \in [1..n -> lib], at \in Layouts(n, np) :
            doc = MakeDoc(ls, at, np)

-----------------------------------------------------------------------------
(* extract_outline_from_pdf, one action per call it makes.  Each call      *)
(* into the layout parser (fitz.open, page.get_text, doc.close) either     *)
(* returns or raises; a raise is caught by the except branch.              *)

\* the state before extract_outline_from_pdf runs
Start ==
    /\ pc = "open"
    /\ title = <<>>
    /\ thresholds = NoThresholds
    /\ headings = <<>>
    /\ seen_headings = {}
    /\ page_num = 0
    /\ todo = <<>>
    /\ result = NoResult
    /\ origin = <<>>
    /\ stages = <<>>
    /\ last = NoLine

Init == SomeDoc(LineLib) /\ Start

InitLines == SomeDoc(FilterLib) /\ Start

\* except Exception: return {"title": "Error", "outline": []}
Raise ==
    /\ pc' = "done"
    /\ result' = ErrorResult(headings)
    /\ stages' = Append(stages, "raise")
    /\ UNCHANGED <<doc, title, thresholds, headings, seen_headings, page_num,
                   todo, origin, last>>

\* fitz.open raises
OpenFails == pc = "open" /\ Raise

\* doc = fitz.open(pdf_path); if len(doc) == 0: return Empty Document
Open ==
    /\ pc = "open"
    /\ IF Len(doc) = 0
       THEN pc' = "done" /\ result' = EmptyResult
       ELSE pc' = "title" /\ result' = result
    /\ UNCHANGED <<doc, title, thresholds, headings, seen_headings, page_num,
                   todo, origin, stages, last>>

\* a page.get_text of extract_title_from_document raises
TitleFails == pc = "title" /\ Raise

\* title = extract_title_from_document(doc)
Title ==
    /\ pc = "title"
    /\ title' = extract_title_from_document(doc)
    /\ stages' = Append(stages, "title")
    /\ pc' = "fonts"
    /\ UNCHANGED <<doc, thresholds, headings, seen_headings, page_num, todo,
                   result, origin, last>>

\* a page.get_text of analyze_font_sizes raises
FontsFails == pc = "fonts" /\ Raise

\* thresholds = analyze_font_sizes(doc), and the entry of
\* extract_headings_from_document: headings = [], seen_headings = set()
Fonts ==
    /\ pc = "fonts"
    /\ thresholds' = analyze_font_sizes(doc)
    /\ stages' = Append(stages, "fonts")
    /\ headings' = <<>>
    /\ seen_headings' = {}
    /\ page_num' = 0
    /\ todo' = <<>>
    /\ pc' = "headings"
    /\ UNCHANGED <<doc, title, result, origin, last>>

\* page.get_text of the next page of extract_headings_from_document raises
HeadingsPageFails ==
    /\ pc = "headings"
    /\ todo = <<>>
    /\ page_num < Len(doc)
    /\ Raise

\* for page_num, page in enumerate(doc, 1): page.get_text("dict")["blocks"]
HeadingsPage ==
    /\ pc = "headings"
    /\ todo = <<>>
    /\ page_num < Len(doc)
    /\ page_num' = page_num + 1
    /\ todo' = PageLines(doc[page_num + 1])
    /\ UNCHANGED <<doc, pc, title, thresholds, headings, seen_headings,
                   result, origin, stages, last>>

\* the loop body for the next line of the page
HeadingsLine ==
    /\ pc = "headings"
    /\ todo # <<>>
    /\ LET line == Head(todo)
           idx == Len(PageLines(doc[page_num])) - Len(todo) + 1
           outcome == LineOutcome(line, title, thresholds, seen_headings)
       IN /\ last' = [page |-> page_num, idx |-> idx, outcome |-> outcome]
          /\ IF outcome \in Levels
             THEN /\ headings' = Append(headings,
                        HeadingRecord(outcome, LineText(line), page_num))
                  /\ seen_headings' =
                        seen_headings \cup {heading_key(LineText(line))}
                  /\ origin' = Append(origin, <<page_num, idx>>)
             ELSE UNCHANGED <<headings, seen_headings, origin>>
    /\ todo' = Tail(todo)
    /\ UNCHANGED <<doc, pc, title, thresholds, page_num, result, stages>>

\* the loops are exhausted: return headings
HeadingsReturn ==
    /\ pc = "headings"
    /\ todo = <<>>
    /\ page_num = Len(doc)
    /\ stages' = Append(stages, "headings")
    /\ pc' = "close"
    /\ UNCHANGED <<doc, title, thresholds, headings, seen_headings, page_num,
                   todo, result, origin, last>>

\* doc.close() raises
CloseFails == pc = "close" /\ Raise

\* doc.close(); return {"title": title, "outline": outline}
Close ==
    /\ pc = "close"
    /\ result' = OutlineResult(title, headings)
    /\ pc' = "done"
    /\ UNCHANGED <<doc, title, thresholds, headings, seen_headings, page_num,
                   todo, origin, stages, last>>

Next ==
    \/ OpenFails
    \/ Open
    \/ TitleFails
    \/ Title
    \/ FontsFails
    \/ Fonts
    \/ HeadingsPageFails
    \/ HeadingsPage
    \/ HeadingsLine
    \/ HeadingsReturn
    \/ CloseFails
    \/ Close

Spec == Init /\ [][Next]_vars

SpecLines == InitLines /\ [][Next]_vars

-----------------------------------------------------------------------------
(* analyze_font_sizes alone, over documents given by how many spans they   *)
(* have of each size.                                                      *)

\* the sizes drawn, in 1/100 pt; 11.96 rounds to 12.0
FontSizeSeq == <<1000, 1196, 1200, 1400, 1600, 1800>>

\* the most spans of one size
MaxCount == 4

TxtX == <<"x">>

\* k spans of size z
SpansOf(z, k) == [i \in 1..k |-> Sp(TxtX, z, Helvetica, 0, 720)]

\* one line per size with spans of it, each line led by a blank span of
\* 30 pt when blank is set
FontDoc(c, blank) ==
    <<MakePage(
        [k \in 1..Len(FontSizeSeq) |->
            (IF blank /\ c[k] > 0
             THEN <<Sp(TxtBlank, 3000, Helvetica, 0, 500)>> ELSE <<>>)
            \o SpansOf(FontSizeSeq[k], c[k])])>>

InitFonts ==
    /\ \E c \in [1..Len(FontSizeSeq) -> 0..MaxCount], blank \in BOOLEAN :
        doc = FontDoc(c, blank)
    /\ pc = "fonts"
    /\ title = <<>>
    /\ thresholds = NoThresholds
    /\ headings = <<>>
    /\ seen_headings = {}
    /\ page_num = 0
    /\ todo = <<>>
    /\ result = NoResult
    /\ origin = <<>>
    /\ stages = <<>>
    /\ last = NoLine

\* thresholds = analyze_font_sizes(doc)
Analyze ==
    /\ pc = "fonts"
    /\ thresholds' = analyze_font_sizes(doc)
    /\ pc' = "analyzed"
    /\ UNCHANGED <<doc, title, headings, seen_headings, page_num, todo,
                   result, origin, stages, last>>

SpecFonts == InitFonts /\ [][Analyze]_vars

-----------------------------------------------------------------------------
(* extract_title_from_document alone, over documents of one line a page.   *)

TxtPlan ==
    <<"D", "e", "s", "i", "g", "n", " ", "P", "l", "a", "n">>

TxtDoc ==
    <<"D", "e", "s", "i", "g", "n", " ", "D", "o", "c">>

TxtPageHdr ==
    <<"P", "A", "G", "E", " ", "O", "N", "E", " ", "O", "F", " ", "T", "E",
      "N">>

TxtNotes ==
    <<"D", "e", "s", "i", "g", "n", " ", "N", "o", "t", "e", "s">>

TxtDesign ==
    <<"D", "e", "s", "i", "g", "n", " ">>

TxtReview ==
    <<"R", "e", "v", "i", "e", "w">>

TxtFinal ==
    <<"F", "i", "n", "a", "l", " ", "R", "e", "p", "o", "r", "t", " ", "A">>

\* a text of n characters
Pad(n) == [i \in 1..n |-> "x"]

LnPlan == <<Sp(TxtPlan, 1400, Helvetica, 0, 720)>>

LnDoc == <<Sp(TxtDoc, 2400, Helvetica, 0, 720)>>

LnLong149 == <<Sp(Pad(149), 1800, Helvetica, 0, 720)>>

LnLong150 == <<Sp(Pad(150), 2400, Helvetica, 0, 720)>>

LnPageHdr == <<Sp(TxtPageHdr, 2400, Helvetica, 0, 720)>>

LnNotes == <<Sp(TxtNotes, 1000, Helvetica, 0, 720)>>

LnReview ==
    <<Sp(TxtDesign, 1600, Helvetica, 0, 720),
      Sp(TxtReview, 1200, Helvetica, 0, 1800)>>

LnFinal == <<Sp(TxtFinal, 2400, Helvetica, 0, 720)>>

TitleLib ==
    {LnPlan, LnDoc, LnLong149, LnLong150, LnPageHdr, LnNotes, LnReview,
     LnFinal}

\* the most pages of a document of the title extractor
MaxTitlePages == 4

InitTitle ==
    /\ \E np \in 0..MaxTitlePages : \E ls \in [1..np -> TitleLib] :
        doc = [p \in 1..np |-> MakePage(<<ls[p]>>)]
    /\ pc = "title"
    /\ title = <<>>
    /\ thresholds = NoThresholds
    /\ headings = <<>>
    /\ seen_headings = {}
    /\ page_num = 0
    /\ todo = <<>>
    /\ result = NoResult
    /\ origin = <<>>
    /\ stages = <<>>
    /\ last = NoLine

\* title = extract_title_from_document(doc)
TitleOnly ==
    /\ pc = "title"
    /\ title' = extract_title_from_document(doc)
    /\ pc' = "titled"
    /\ UNCHANGED <<doc, thresholds, headings, seen_headings, page_num, todo,
                   result, origin, stages, last>>

SpecTitle == InitTitle /\ [][TitleOnly]_vars

-----------------------------------------------------------------------------
(* Properties of the heading extractor and the orchestrator.               *)

\* normalized text: lowercased and trimmed
Normalized(text) == Lower(Strip(text))

\* extract_outline_from_pdf returned from the end of its try body
Returned == pc = "done" /\ stages = <<"title", "fonts", "headings">>

Visited == last # NoLine

\* the line the loop body visited last, and its cleaned text
LastLine == PageLines(doc[last.page])[last.idx]

LastText == LineText(LastLine)

\* position a is before position b in reading order
Before(a, b) == a[1] < b[1] \/ (a[1] = b[1] /\ a[2] < b[2])

\* the (page, line) positions of the document
Positions ==
    UNION {{<<p, i>> : i \in 1..Len(PageLines(doc[p]))} : p \in 1..Len(doc)}

LineAt(pos) == PageLines(doc[pos[1]])[pos[2]]

\* the line passes every filter and is given a level, whatever came before it
Eligible(line) == LineOutcome(line, title, thresholds, {}) \in Levels

\* the non-blank spans of a document and the distinct sizes they have
DocTextSpans(d) == SelectSeq(DocSpans(d), NonBlank)

DocSizes(d) == {DocTextSpans(d)[i].size : i \in 1..Len(DocTextSpans(d))}

NoBoldSpan(d) == \A i \in 1..Len(DocSpans(d)) : ~is_bold(DocSpans(d)[i])

\* one distinct font size, of at least 1 pt, and no bold span
OneSizeNoBold(d) ==
    /\ Cardinality(DocSizes(d)) = 1
    /\ \A z \in DocSizes(d) : z >= 100
    /\ NoBoldSpan(d)

\* C1: no two heading records of an outline have the same normalized text,
\* wherever in the document (on the same page or on different pages) their
\* lines are; this holds of the list being built and of the outline returned.
C1_NoDuplicateHeadings ==
    /\ \A i \in 1..Len(headings), j \in 1..Len(headings) :
        i # j => Normalized(headings[i].text) # Normalized(headings[j].text)
    /\ \A i \in 1..Len(result.outline), j \in 1..Len(result.outline) :
        i # j => Normalized(result.outline[i].text)
                    # Normalized(result.outline[j].text)

\* a line on page 2 is dropped as a duplicate of a heading of page 1 whose
\* text differs from it in case
C1_Witness ==
    /\ Visited
    /\ last.outcome = "dup"
    /\ last.page = 2
    /\ \E i \in 1..Len(headings) :
        /\ headings[i].page = 0
        /\ Normalized(headings[i].text) = Normalized(LastText)
        /\ headings[i].text # Append(LastText, " ")

\* C2: the outline extract_outline_from_pdf returns holds no record whose
\* normalized text equals the normalized title it returns.
C2_TitleNotInOutline ==
    pc = "done" =>
        \A i \in 1..Len(result.outline) :
            Normalized(result.outline[i].text) # Normalized(result.title)

\* the title is the numbered 24 pt line "1. Introduction", and the last line
\* visited, which differs from it in case and spacing, was skipped as the title
C2_Witness ==
    /\ Returned
    /\ result.title = TxtIntro
    /\ last.outcome = "title"
    /\ LastLine = LnIntroVar

\* C3: a line whose cleaned text matches ^\d+\.\d+\.\d+\s and has at most 10
\* words is classified H3 (unless the table filter, the candidate test, the
\* title exclusion or the de-duplication dropped it).
C3_NumberedIsH3 ==
    (/\ Visited
     /\ MatchNum3(LastText)
     /\ WordCount(LastText) <= 10
     /\ last.outcome \notin {"table", "notcand", "title", "dup"})
    => last.outcome = "H3"

\* C4: a line of 4 or more spans produces no heading record.
C4_FourSpansNoHeading ==
    (Visited /\ Len(LastLine) >= 4) => last.outcome \notin Levels

\* C5 as claimed: a document of one distinct font size and no bold span has
\* an empty outline.
C5_OneSizeEmptyOutline ==
    (Returned /\ OneSizeNoBold(doc)) => result.outline = <<>>

\* C5 amended: in a document of one distinct font size (of at least 1 pt)
\* and no bold span, every heading record is a line with a numbered prefix,
\* at the level the prefix gives; no line gets a level from its font size.
C5_OneSizeOnlyNumbered ==
    (Returned /\ OneSizeNoBold(doc)) =>
        \A i \in 1..Len(result.outline) :
            detect_heading_level_by_number(Strip(result.outline[i].text))
                = result.outline[i].level

\* a one-size document whose numbered line is in the outline and whose last
\* line, a candidate without a numbered prefix, got no level
C5_Witness ==
    /\ Returned
    /\ OneSizeNoBold(doc)
    /\ result.outline # <<>>
    /\ last.outcome = "nolevel"

\* C8: extract_outline_from_pdf always returns a result: Error with an empty
\* outline when a call raised, Empty Document with no stage run when the
\* document has no page, otherwise the title and the outline of the stages,
\* which ran in the order title, fonts, headings.
C8_Orchestrator ==
    /\ \/ stages \in {<<>>, <<"title">>, <<"title", "fonts">>,
                      <<"title", "fonts", "headings">>}
       \/ stages \in {<<"raise">>, <<"title", "raise">>,
                      <<"title", "fonts", "raise">>,
                      <<"title", "fonts", "headings", "raise">>}
    /\ pc = "done" =>
        IF stages # <<>> /\ stages[Len(stages)] = "raise"
        THEN result = [title |-> ErrorTitle, outline |-> <<>>]
        ELSE IF Len(doc) = 0
        THEN /\ stages = <<>>
             /\ result = [title |-> EmptyDocumentTitle, outline |-> <<>>]
        ELSE /\ stages = <<"title", "fonts", "headings">>
             /\ result.title = extract_title_from_document(doc)
             /\ result.outline = headings
             /\ thresholds = analyze_font_sizes(doc)

\* a page's get_text raised after headings had been collected, and the
\* result is Error with an empty outline
C8_Witness ==
    /\ pc = "done"
    /\ stages = <<"title", "fonts", "raise">>
    /\ headings # <<>>
    /\ result.title = ErrorTitle

\* C9: the outline is in reading order with 0-indexed pages: each record is
\* the line it came from (its text, its level, its page's index from 0), the
\* records' lines are in strictly increasing reading order, so the page
\* values never decrease, and every line that passes the filters and gets a
\* level is in the outline or has an earlier record with its normalized text.
C9_ReadingOrder ==
    Returned =>
        /\ Len(origin) = Len(result.outline)
        /\ \A i \in 1..Len(result.outline) :
            /\ origin[i] \in Positions
            /\ result.outline[i].page = origin[i][1] - 1
            /\ result.outline[i].page \in 0..(Len(doc) - 1)
            /\ result.outline[i].text = Append(LineText(LineAt(origin[i])), " ")
            /\ result.outline[i].level =
                 LineOutcome(LineAt(origin[i]), title, thresholds, {})
        /\ \A i \in 1..Len(result.outline), j \in 1..Len(result.outline) :
            i < j => /\ Before(origin[i], origin[j])
                     /\ result.outline[i].page <= result.outline[j].page
        /\ \A pos \in Positions :
            Eligible(LineAt(pos)) =>
                \E i \in 1..Len(result.outline) :
                    /\ Normalized(result.outline[i].text)
                         = Normalized(LineText(LineAt(pos)))
                    /\ ~Before(pos, origin[i])

\* the outline has a record of page 0 followed by a record of page 1
C9_Witness ==
    /\ Returned
    /\ Len(result.outline) = 2
    /\ result.outline[1].page = 0
    /\ result.outline[2].page = 1

\* C10 as claimed: a line matching ^\d+\.\s with at most 6 words that passes
\* the other filters is emitted as H1.
C10_NumberedUpTo6IsH1 ==
    (/\ Visited
     /\ MatchNum1(LastText)
     /\ WordCount(LastText) <= 6
     /\ last.outcome \notin {"table", "notcand", "title", "dup"})
    => last.outcome = "H1"

\* the text starts with one or two digits and a dot
ShortPrefix(t) ==
    \/ Len(t) >= 2 /\ t[1] \in Digits /\ t[2] = "."
    \/ Len(t) >= 3 /\ t[1] \in Digits /\ t[2] \in Digits /\ t[3] = "."

\* C10 amended: the form-field filter skips exactly the lines (that reach
\* it) whose cleaned text starts with one or two digits and a dot and has 5
\* or more words in all, the prefix counted; a line matching ^\d+\.\s that
\* passes the other filters is emitted as H1 when it has at most 4 words,
\* or a prefix of 3 or more digits and at most 6 words.
C10_FormFilter ==
    (Visited /\ last.outcome \notin {"nospans", "notext", "table"}) =>
        /\ last.outcome = "form"
             <=> (ShortPrefix(LastText) /\ WordCount(LastText) >= 5)
        /\ (/\ MatchNum1(LastText)
            /\ \/ WordCount(LastText) <= 4
               \/ ~ShortPrefix(LastText) /\ WordCount(LastText) <= 6
            /\ last.outcome \notin {"notcand", "title", "dup"})
           => last.outcome = "H1"

\* the filter skipped a line of a one-digit prefix and exactly 5 words
C10_Witness ==
    /\ Visited
    /\ last.outcome = "form"
    /\ MatchNum1(LastText)
    /\ WordCount(LastText) = 5

-----------------------------------------------------------------------------
(* Properties of the font statistics analyzer and the title extractor.     *)

\* the number of spans among sp whose size rounds to v
RoundedCount(sp, v) ==
    Cardinality({i \in 1..Len(sp) : Round1(sp[i].size) = v})

\* the number of spans among sp of size z
SizeCount(sp, z) == Cardinality({i \in 1..Len(sp) : sp[i].size = z})

\* the document's non-blank spans have exactly the sizes c gives, c[z] of
\* each size z
HasSizes(c) ==
    LET sp == DocTextSpans(doc)
        sizes == {sp[i].size : i \in 1..Len(sp)}
    IN /\ sizes = {z \in DOMAIN c : c[z] > 0}
       /\ \A z \in sizes : SizeCount(sp, z) = c[z]

Max(S) == CHOOSE x \in S : \A y \in S : y <= x

\* C6: body is the most frequent rounded size, the larger one of a tie; with
\* 4 or more distinct sizes H1, H2, H3 are the three largest, otherwise
\* body*1.35, body*1.25, body*1.15; no sizes give the empty mapping; the
\* two examples of the specification give the thresholds it states.
C6_Thresholds ==
    pc = "analyzed" =>
        /\ LET sp == DocTextSpans(doc)
               R == {Round1(sp[i].size) : i \in 1..Len(sp)}
               count == [v \in R |-> RoundedCount(sp, v)]
               first == Max(R)
               second == Max(R \ {first})
               third == Max(R \ {first, second})
           IN /\ (R = {}) <=> (thresholds = NoThresholds)
              /\ R # {} =>
                  /\ DOMAIN thresholds = {"body", "H1", "H2", "H3"}
                  /\ \E v \in R :
                       /\ thresholds.body = v * 100
                       /\ \A w \in R :
                           \/ count[w] < count[v]
                           \/ count[w] = count[v] /\ w <= v
                  /\ IF Cardinality(R) >= 4
                     THEN /\ thresholds.H1 = first * 100
                          /\ thresholds.H2 = second * 100
                          /\ thresholds.H3 = third * 100
                     ELSE /\ thresholds.H3 * 100 = thresholds.body * 115
                          /\ thresholds.H2 * 100 = thresholds.body * 125
                          /\ thresholds.H1 * 100 = thresholds.body * 135
        /\ HasSizes([z \in {1200, 1400, 1800} |->
                        IF z = 1200 THEN 3 ELSE IF z = 1400 THEN 2 ELSE 1])
            => thresholds = [body |-> 120000, H3 |-> 138000, H2 |-> 150000,
                             H1 |-> 162000]
        /\ HasSizes([z \in {1000, 1200, 1400, 1600} |->
                        IF z = 1000 THEN 4 ELSE IF z = 1200 THEN 2 ELSE 1])
            => thresholds = [body |-> 100000, H3 |-> 120000, H2 |-> 140000,
                             H1 |-> 160000]

\* sizes [12, 12, 12, 14, 14, 18] were analyzed: three distinct sizes, the
\* ratio thresholds of body 12
C6_Witness ==
    /\ pc = "analyzed"
    /\ HasSizes([z \in {1200, 1400, 1800} |->
                    IF z = 1200 THEN 3 ELSE IF z = 1400 THEN 2 ELSE 1])
    /\ thresholds.H1 = 162000

\* what the title extractor looks at in a line: its cleaned text, the sum
\* and the number of its non-blank spans' sizes
Measured(line) ==
    [text |-> LineText(line),
     sum |-> SumSeq(LineSizes(line)),
     n |-> Len(LineSizes(line))]

\* the line is a title candidate: cleaned length strictly between 10 and
\* 150, mean size above 10 pt, no leading "page" in any case
Qualifies(m) ==
    /\ m.n > 0
    /\ Len(m.text) > 10
    /\ Len(m.text) < 150
    /\ m.sum > 1000 * m.n
    /\ ~StartsWith(Lower(m.text), <<"p", "a", "g", "e">>)

\* C7: the title is the text of a candidate line of the first 3 pages of
\* the largest mean size, on the earliest page among those of that size;
\* it is "Untitled" exactly when the first 3 pages hold no candidate.
C7_Title ==
    pc = "titled" =>
        LET first3 == {pos \in Positions : pos[1] <= 3}
            m == [pos \in first3 |-> Measured(LineAt(pos))]
            cands == {pos \in first3 : Qualifies(m[pos])}
        IN /\ (title = Untitled) <=> (cands = {})
           /\ cands # {} =>
               \E pos \in cands :
                   /\ title = m[pos].text
                   /\ \A other \in cands :
                       \/ m[other].sum * m[pos].n < m[pos].sum * m[other].n
                       \/ /\ m[other].sum * m[pos].n = m[pos].sum * m[other].n
                          /\ other[1] >= pos[1]

\* the title is the 14 pt line of page 2, ahead of the 14 pt line of page 3
\* and of the larger line of page 4
C7_Witness ==
    /\ pc = "titled"
    /\ Len(doc) = 4
    /\ PageLines(doc[2]) = <<LnReview>>
    /\ PageLines(doc[3]) = <<LnPlan>>
    /\ PageLines(doc[4]) = <<LnFinal>>
    /\ title = LineText(LnReview)

====
